---- MODULE Spec2Model ----
(***************************************************************************)
(* Model of the task scheduler of the Telegram bot:                        *)
(*   src/scheduler.py  ScheduledTask, TaskScheduler                        *)
(*   src/bot.py        the /schedule, /toggletask, /deletetask, /runtask   *)
(*                     handlers and the start/stop wiring                  *)
(*                                                                         *)
(* Time is the wall clock in seconds; second 0 is a Monday 00:00:00, so    *)
(* datetime.weekday() is (clock \div SecondsPerDay) % 7.                   *)
(*                                                                         *)
(* Strings that the code parses are modelled by what the parse yields:     *)
(*   time_spec  a sequence of integers, the fields the code reads with     *)
(*              int()/split(); a sequence of the wrong length is a text    *)
(*              the parse rejects (ValueError);                            *)
(*   next_run,  <<t>> is the ISO-8601 text isoformat() writes for the      *)
(*   last_run   instant t, <<>> for next_run is a text that                *)
(*              datetime.fromisoformat rejects, <<>> for last_run is None. *)
(*                                                                         *)
(* The event loop is single-threaded: a coroutine runs until its next      *)
(* await that really suspends.  The awaits that suspend inside             *)
(* execute_task are the two send_telegram calls; the LLM call              *)
(* (claude_client.messages.create) and call_mac are synchronous.           *)
(***************************************************************************)
EXTENDS Integers, Sequences, FiniteSets, TLC

(* ------------------------------ bounds -------------------------------- *)
\* chat commands and process restarts in one behaviour
MaxEvents == 3
\* clock steps of PollSeconds after the initial instant
MaxTicks == 1
\* loop coroutines created by start() in one process lifetime
MaxLoops == 2
\* state updates of the task of the calculator specification
MaxRuns == 2
\* records of the task file found by the loader specification
MaxRecords == 2
\* words of a schedule text of the parser specification
MaxWords == 4

(* ------------------------- program constants -------------------------- *)
\* asyncio.sleep(30) between two scans
PollSeconds == 30
\* the ceiling of the tool loop of one execution
max_iterations == 5

\* the units of datetime and timedelta
SecondsPerMinute == 60
MinutesPerHour == 60
HoursPerDay == 24
DaysPerWeek == 7
SecondsPerHour == MinutesPerHour * SecondsPerMinute
SecondsPerDay == HoursPerDay * SecondsPerHour

\* the chat users who schedule tasks
Users == {1}
\* the chat users who send commands about tasks: the owners and another user
Callers == Users \cup {2}

\* The first instant of the model: a Sunday, 23:59:30.
StartClock == (6 * SecondsPerDay) + (23 * SecondsPerHour) + (59 * SecondsPerMinute) + 30
MaxClock == StartClock + (MaxTicks * PollSeconds)

(* ----------------------------- datetime ------------------------------- *)
Weekday(t) == (t \div SecondsPerDay) % DaysPerWeek
HourOf(t) == (t % SecondsPerDay) \div SecondsPerHour
MinuteOf(t) == (t % SecondsPerHour) \div SecondsPerMinute
\* t.replace(hour=0, minute=0, second=0, microsecond=0)
DayStart(t) == t - (t % SecondsPerDay)
\* t.replace(minute=0, second=0, microsecond=0)
HourStart(t) == t - (t % SecondsPerHour)
\* datetime.replace raises ValueError outside these ranges
ValidHour(h) == h \in 0..(HoursPerDay - 1)
ValidMinute(m) == m \in 0..(MinutesPerHour - 1)

\* datetime.isoformat(): the text of an instant
isoformat(t) == <<t>>
\* datetime.fromisoformat(): defined on the texts isoformat writes only
CanParseIso(s) == Len(s) = 1
fromisoformat(s) == s[1]

(* ------------------------ Recurrence calculator ----------------------- *)
OnceNextRun(time_spec, now) == time_spec

\* the daily branch with the comparison written `next_time < now`
DailyNextRun_Strict(time_spec, now) ==
    IF Len(time_spec) = 2 /\ ValidHour(time_spec[1]) /\ ValidMinute(time_spec[2])
    THEN LET next_time == DayStart(now) + (time_spec[1] * SecondsPerHour)
                                        + (time_spec[2] * SecondsPerMinute)
         IN  isoformat(IF next_time < now THEN next_time + SecondsPerDay ELSE next_time)
    ELSE isoformat(now + SecondsPerDay)

DailyNextRun(time_spec, now) ==
    IF Len(time_spec) = 2 /\ ValidHour(time_spec[1]) /\ ValidMinute(time_spec[2])
    THEN LET next_time == DayStart(now) + (time_spec[1] * SecondsPerHour)
                                        + (time_spec[2] * SecondsPerMinute)
         IN  isoformat(IF next_time <= now THEN next_time + SecondsPerDay ELSE next_time)
    ELSE isoformat(now + SecondsPerDay)

\* the weekly branch with the same-day comparison written `>` for `>=`
WeeklyNextRun_Late(time_spec, now) ==
    IF Len(time_spec) = 3 /\ ValidHour(time_spec[2]) /\ ValidMinute(time_spec[3])
    THEN LET target_day == time_spec[1]
             hour == time_spec[2]
             minute == time_spec[3]
             d0 == target_day - Weekday(now)
             days_ahead ==
                 IF d0 < 0 \/ (d0 = 0 /\ (HourOf(now) * MinutesPerHour) + MinuteOf(now)
                                    > (hour * MinutesPerHour) + minute)
                 THEN d0 + DaysPerWeek ELSE d0
         IN  isoformat(DayStart(now + (days_ahead * SecondsPerDay))
                       + (hour * SecondsPerHour) + (minute * SecondsPerMinute))
    ELSE isoformat(now + (DaysPerWeek * SecondsPerDay))

WeeklyNextRun(time_spec, now) ==
    IF Len(time_spec) = 3 /\ ValidHour(time_spec[2]) /\ ValidMinute(time_spec[3])
    THEN LET target_day == time_spec[1]
             hour == time_spec[2]
             minute == time_spec[3]
             d0 == target_day - Weekday(now)
             days_ahead ==
                 IF d0 < 0 \/ (d0 = 0 /\ (HourOf(now) * MinutesPerHour) + MinuteOf(now)
                                    >= (hour * MinutesPerHour) + minute)
                 THEN d0 + DaysPerWeek ELSE d0
         IN  isoformat(DayStart(now + (days_ahead * SecondsPerDay))
                       + (hour * SecondsPerHour) + (minute * SecondsPerMinute))
    ELSE isoformat(now + (DaysPerWeek * SecondsPerDay))

HourlyNextRun(time_spec, now) ==
    IF Len(time_spec) = 1 /\ ValidMinute(time_spec[1])
    THEN LET next_time == HourStart(now) + (time_spec[1] * SecondsPerMinute)
         IN  isoformat(IF next_time <= now THEN next_time + SecondsPerHour ELSE next_time)
    ELSE isoformat(now + SecondsPerHour)

CustomNextRun(time_spec, now) ==
    IF Len(time_spec) = 1
    THEN isoformat(now + (time_spec[1] * SecondsPerMinute))
    ELSE isoformat(now + SecondsPerHour)

\* ScheduledTask._calculate_next_run
calculate_next_run(frequency, time_spec, now) ==
    CASE frequency = "once"   -> OnceNextRun(time_spec, now)
      [] frequency = "daily"  -> DailyNextRun(time_spec, now)
      [] frequency = "weekly" -> WeeklyNextRun(time_spec, now)
      [] frequency = "hourly" -> HourlyNextRun(time_spec, now)
      [] frequency = "custom" -> CustomNextRun(time_spec, now)
      [] OTHER                -> isoformat(now + SecondsPerHour)

(* ------------------------ parse_schedule_input ------------------------ *)
\* A schedule text, after text.lower().strip(), is a sequence of words
\* separated by white space.  A word is a string of letters, or digits "H" or
\* "H:MM" (n the digits before the colon, mm those after it, -1 without one).
Word(w) == [w |-> w, n |-> 0, mm |-> -1]
Num(n, mm) == [w |-> "#", n |-> n, mm |-> mm]
\* the list `days`
days == <<"monday", "tuesday", "wednesday", "thursday", "friday", "saturday", "sunday">>

IsWord(text, j, w) == j \in 1..Len(text) /\ text[j].w = w
IsNum(text, j) == j \in 1..Len(text) /\ text[j].w = "#"
\* `(?:at\s+)?(\d{1,2})` from word j on: the place of the digits, 0 without a match
NumAfter(text, j) ==
    IF IsNum(text, j) THEN j
    ELSE IF IsWord(text, j, "at") /\ IsNum(text, j + 1) THEN j + 1
    ELSE 0
\* `\s*(am|pm)?` after the digits at word j
AmPm(text, j) ==
    IF IsWord(text, j + 1, "am") THEN "am"
    ELSE IF IsWord(text, j + 1, "pm") THEN "pm"
    ELSE "none"
\* the groups of a time match without `elif ampm == "am" and hour == 12: hour = 0`
HourMinute_NoMidnight(text, j) ==
    LET hour == text[j].n
        minute == IF text[j].mm < 0 THEN 0 ELSE text[j].mm
    IN  << IF AmPm(text, j) = "pm" /\ hour < 12 THEN hour + 12 ELSE hour, minute >>

\* hour, minute of the groups of a time match whose digits are word j
HourMinute(text, j) ==
    LET hour == text[j].n
        minute == IF text[j].mm < 0 THEN 0 ELSE text[j].mm
        ampm == AmPm(text, j)
    IN  << IF ampm = "pm" /\ hour < 12 THEN hour + 12
           ELSE IF ampm = "am" /\ hour = 12 THEN 0
           ELSE hour,
           minute >>
\* `\s*(minute|hour|day)` at word j: the unit the word begins with
Unit(text, j) ==
    IF IsWord(text, j, "minute") THEN "minute"
    ELSE IF IsWord(text, j, "hour") \/ IsWord(text, j, "hourly") THEN "hour"
    ELSE IF IsWord(text, j, "day") THEN "day"
    ELSE "none"
\* re.search: the leftmost place of I, 0 when I is empty
Leftmost(I) == IF I = {} THEN 0 ELSE CHOOSE i \in I : \A j \in I : i <= j

\* daily_match: the place of its digits, 0 for None
daily_match(text) ==
    LET i == Leftmost({ k \in 1..Len(text) :
                           IsWord(text, k, "daily") /\ NumAfter(text, k + 1) # 0 })
    IN  IF i = 0 THEN 0 ELSE NumAfter(text, i + 1)
\* "every day" in text
EveryDay(text) ==
    \E i \in 1..Len(text) : IsWord(text, i, "every") /\ IsWord(text, i + 1, "day")
\* the first `day` of `days` with `day in text`: its place in the list, 0 for none
DayIn(text) ==
    Leftmost({ d \in 1..Len(days) : \E i \in 1..Len(text) : text[i].w = days[d] })
\* time_match of the weekly and tomorrow branches: the first digits of the text
time_match(text) == Leftmost({ k \in 1..Len(text) : IsNum(text, k) })
\* the digits after `hourly` or `every hour` at word i, 0 without a match there
HourlyAt(text, i) ==
    IF IsWord(text, i, "hourly") THEN NumAfter(text, i + 1)
    ELSE IF IsWord(text, i, "every") /\ IsWord(text, i + 1, "hour")
    THEN NumAfter(text, i + 2)
    ELSE 0
\* hourly_match: the place of its digits, 0 for None
hourly_match(text) ==
    LET i == Leftmost({ k \in 1..Len(text) : HourlyAt(text, k) # 0 })
    IN  IF i = 0 THEN 0 ELSE HourlyAt(text, i)
\* interval_match: the place of `every`, 0 for None
interval_match(text) ==
    Leftmost({ k \in 1..Len(text) :
                 /\ IsWord(text, k, "every")
                 /\ IsNum(text, k + 1) /\ text[k + 1].mm < 0
                 /\ Unit(text, k + 2) \in {"minute", "hour"} })
\* the time_match of the "in " branch: the place of `in`, 0 for None
in_match(text) ==
    Leftmost({ k \in 1..Len(text) :
                 /\ IsWord(text, k, "in")
                 /\ IsNum(text, k + 1) /\ text[k + 1].mm < 0
                 /\ Unit(text, k + 2) # "none" })
\* "tomorrow" in text
Tomorrow(text) == \E i \in 1..Len(text) : IsWord(text, i, "tomorrow")

\* what a call of parse_schedule_input does: it returns a pair or raises
Parsed(frequency, time_spec) ==
    [raises |-> FALSE, frequency |-> frequency, time_spec |-> time_spec]
ParseRaises == [raises |-> TRUE, frequency |-> "none", time_spec |-> <<>>]
\* timedelta of the "in " branch, in seconds
Delta(value, unit) ==
    IF unit = "minute" THEN value * SecondsPerMinute
    ELSE IF unit = "hour" THEN value * SecondsPerHour
    ELSE value * SecondsPerDay

\* the tomorrow branch: tomorrow.replace(hour=..., minute=...) raises ValueError
\* for an hour above 23 or a minute above 59
TomorrowBranch(text, now) ==
    LET hm == IF time_match(text) # 0 THEN HourMinute(text, time_match(text)) ELSE <<9, 0>>
    IN  IF ValidHour(hm[1]) /\ ValidMinute(hm[2])
        THEN Parsed("once", isoformat(DayStart(now + SecondsPerDay)
                                      + (hm[1] * SecondsPerHour)
                                      + (hm[2] * SecondsPerMinute)))
        ELSE ParseRaises

\* parse_schedule_input(text), called at now
parse_schedule_input(text, now) ==
    IF daily_match(text) # 0 \/ EveryDay(text)
    THEN IF daily_match(text) # 0
         THEN Parsed("daily", HourMinute(text, daily_match(text)))
         ELSE Parsed("daily", <<9, 0>>)
    ELSE IF DayIn(text) # 0
    THEN IF time_match(text) # 0
         THEN Parsed("weekly", <<DayIn(text) - 1>> \o HourMinute(text, time_match(text)))
         ELSE Parsed("weekly", <<DayIn(text) - 1, 9, 0>>)
    ELSE IF hourly_match(text) # 0
    THEN Parsed("hourly", <<text[hourly_match(text)].n>>)
    ELSE IF interval_match(text) # 0
    THEN LET value == text[interval_match(text) + 1].n
         IN  Parsed("custom", << IF Unit(text, interval_match(text) + 2) = "hour"
                                 THEN value * MinutesPerHour ELSE value >>)
    ELSE IF in_match(text) # 0
    THEN Parsed("once", isoformat(now + Delta(text[in_match(text) + 1].n,
                                              Unit(text, in_match(text) + 2))))
    ELSE IF Tomorrow(text)
    THEN TomorrowBranch(text, now)
    ELSE Parsed("daily", <<9, 0>>)

(* ----------------------------- Task record ---------------------------- *)
\* ScheduledTask(...) as add_task constructs it; __post_init__ fills next_run
NewTask(user_id, frequency, time_spec, now) ==
    [task_id   |-> <<user_id, now>>,
     user_id   |-> user_id,
     chat_id   |-> user_id,
     prompt    |-> <<>>,
     use_tools |-> TRUE,
     frequency |-> frequency,
     time_spec |-> time_spec,
     enabled   |-> TRUE,
     last_run  |-> <<>>,
     next_run  |-> calculate_next_run(frequency, time_spec, now),
     run_count |-> 0]

\* update_next_run adding the interval of a custom task to its previous next_run
update_next_run_FromPrevious(task, now) ==
    CASE task.frequency = "once" ->
           [task EXCEPT !.last_run = isoformat(now), !.run_count = @ + 1,
                        !.enabled = FALSE]
      [] task.frequency = "custom" /\ Len(task.time_spec) = 1 ->
           [task EXCEPT !.last_run = isoformat(now), !.run_count = @ + 1,
                        !.next_run = isoformat(fromisoformat(@)
                                       + (task.time_spec[1] * SecondsPerMinute))]
      [] OTHER ->
           [task EXCEPT !.last_run = isoformat(now), !.run_count = @ + 1,
                        !.next_run = calculate_next_run(task.frequency, task.time_spec, now)]

\* update_next_run without `self.enabled = False` for a once task
update_next_run_NoDisable(task, now) ==
    IF task.frequency = "once"
    THEN [task EXCEPT !.last_run = isoformat(now), !.run_count = @ + 1]
    ELSE [task EXCEPT !.last_run = isoformat(now), !.run_count = @ + 1,
                      !.next_run = calculate_next_run(task.frequency, task.time_spec, now)]

\* ScheduledTask.update_next_run
update_next_run(task, now) ==
    IF task.frequency = "once"
    THEN [task EXCEPT !.last_run = isoformat(now), !.run_count = @ + 1,
                      !.enabled = FALSE]
    ELSE [task EXCEPT !.last_run = isoformat(now), !.run_count = @ + 1,
                      !.next_run = calculate_next_run(task.frequency, task.time_spec, now)]

\* The time_spec formats add_task documents, by frequency.
WellFormed(frequency, time_spec) ==
    CASE frequency = "once"   -> CanParseIso(time_spec)
      [] frequency = "daily"  -> Len(time_spec) = 2 /\ ValidHour(time_spec[1])
                                                    /\ ValidMinute(time_spec[2])
      [] frequency = "weekly" -> Len(time_spec) = 3 /\ time_spec[1] \in 0..(DaysPerWeek - 1)
                                                    /\ ValidHour(time_spec[2])
                                                    /\ ValidMinute(time_spec[3])
      [] frequency = "hourly" -> Len(time_spec) = 1 /\ ValidMinute(time_spec[1])
      [] frequency = "custom" -> Len(time_spec) = 1 /\ time_spec[1] > 0
      [] OTHER                -> FALSE

\* The (frequency, time_spec) pairs the create command is tried with.
Schedules ==
    { <<"once", <<StartClock - PollSeconds>> >>,   \* an instant already past
      <<"once", <<>> >>,                           \* a text that is no ISO datetime
      <<"daily", <<0, 0>> >> }                     \* "00:00"

(* ------------------------------- state -------------------------------- *)
VARIABLES
    clock,    \* datetime.now(), in seconds
    objs,     \* the ScheduledTask objects constructed in this process, by reference
    tasks,    \* TaskScheduler.tasks: the references held by the dict, in insertion order
    file,     \* the task file: [state, data]
    running,  \* TaskScheduler._running
    loops,    \* the _scheduler_loop coroutines created by start(); the last is _task
    cmd,      \* the chat command handler in progress (updates are handled one at a time)
    events,   \* chat commands and restarts so far (bounds the behaviour)
    pending,  \* pending_schedule_prompts of the bot, by user
    agent     \* the agent process: its interrupt flag, operation and connections

vars == <<clock, objs, tasks, file, running, loops, cmd, events, pending, agent>>

\* a user without an entry in pending_schedule_prompts
NoFlow == [step |-> "none", chat_id |-> 0, prompt |-> <<>>]
\* pending_schedule_prompts = {}
NoPending == [u \in Callers |-> NoFlow]
\* The agent after its start: INTERRUPT_FLAG clear, no connection, in accept().
\* op is the request being handled (0 for none), at its check-th interrupt
\* check; backlog holds the connections made and not yet accepted; sent counts
\* the requests so far; replies holds the responses, by request.
IdleAgent ==
    [flag |-> FALSE, op |-> 0, check |-> 0, backlog |-> <<>>, sent |-> 0, replies |-> <<>>]

\* a chat command is received, or the process is restarted
Event == events < MaxEvents /\ events' = events + 1

\* tasks.get(task_id): the reference, or 0 for None
get_task(task_id) ==
    IF \E i \in 1..Len(tasks) : objs[tasks[i]].task_id = task_id
    THEN tasks[CHOOSE i \in 1..Len(tasks) : objs[tasks[i]].task_id = task_id]
    ELSE 0
KnownIds == { objs[tasks[i]].task_id : i \in 1..Len(tasks) }

\* json.dump({task_id: asdict(task)}): the records of the dict, in order
Serialize(os, ts) == [state |-> "ok", data |-> [i \in 1..Len(ts) |-> os[ts[i]]]]
\* _save_tasks: what the file holds afterwards (the write is taken to succeed)
SaveResults(os, ts) == { Serialize(os, ts) }
NoFile == [state |-> "missing", data |-> <<>>]

\* ScheduledTask(**task_data) with `self.next_run` always computed anew
LoadTask_Recompute(rec) ==
    [rec EXCEPT !.next_run = calculate_next_run(rec.frequency, rec.time_spec, clock)]

\* ScheduledTask(**task_data): every field is taken from the record, then
\* __post_init__ computes next_run when the stored one is empty (`not self.next_run`)
LoadTask(rec) ==
    IF rec.next_run = <<>>
    THEN [rec EXCEPT !.next_run = calculate_next_run(rec.frequency, rec.time_spec, clock)]
    ELSE rec

\* the fields of ScheduledTask without a default, and all its fields
RequiredFields == {"task_id", "user_id", "chat_id", "prompt", "frequency", "time_spec"}
TaskFields ==
    RequiredFields \cup {"use_tools", "enabled", "last_run", "next_run", "run_count"}
\* ScheduledTask(**task_data) does not raise TypeError
Constructible(rec) == RequiredFields \subseteq DOMAIN rec /\ DOMAIN rec \subseteq TaskFields
\* the defaults of the fields that task_data leaves out
WithDefaults(rec) ==
    rec @@ [use_tools |-> TRUE, enabled |-> TRUE, last_run |-> <<>>, next_run |-> <<>>,
            run_count |-> 0]

\* _load_tasks whose `except` keeps the tasks loaded before the record that raised
LoadedObjs_KeepLoaded(f) ==
    IF f.state = "ok"
    THEN LET n == IF \A i \in 1..Len(f.data) : Constructible(f.data[i])
                  THEN Len(f.data)
                  ELSE (CHOOSE i \in 1..Len(f.data) :
                           /\ ~Constructible(f.data[i])
                           /\ \A j \in 1..(i - 1) : Constructible(f.data[j])) - 1
         IN  [i \in 1..n |-> LoadTask(WithDefaults(f.data[i]))]
    ELSE <<>>

\* _load_tasks: a missing file gives an empty dict, and so does a file that
\* cannot be read or parsed, or one of whose records cannot be constructed
LoadedObjs(f) ==
    IF f.state = "ok" /\ \A i \in 1..Len(f.data) : Constructible(f.data[i])
    THEN [i \in 1..Len(f.data) |-> LoadTask(WithDefaults(f.data[i]))]
    ELSE <<>>

\* self.tasks[task_id] = task: a known key keeps its place in the dict
DictSet(ts, task_id, ref) ==
    IF \E i \in 1..Len(ts) : objs[ts[i]].task_id = task_id
    THEN [i \in 1..Len(ts) |-> IF objs[ts[i]].task_id = task_id THEN ref ELSE ts[i]]
    ELSE Append(ts, ref)
\* del self.tasks[task_id]
DictDel(ts, task_id) == SelectSeq(ts, LAMBDA r : objs[r].task_id # task_id)

(* --------------------------- the coroutines --------------------------- *)
\* A coroutine of _scheduler_loop.  pc: "start" created and not yet run, "scan"
\* running the for loop at snap[idx], "exec" inside execute_task(snap[idx]) in
\* the blocking LLM calls, "deliver" and "notify" suspended in execute_task's
\* two send_telegram awaits, "sleep" in asyncio.sleep, "done" returned.
\* "resp" is execute_task holding the response of an LLM call, before the
\* `while` test of the tool loop.
\* now, snap, idx, trig are the locals now, list(self.tasks.items()), the
\* position of the for loop and next_run (the parsed due time).
\* iter, resp are execute_task's locals iteration and response; they are
\* cleared when the tool loop is left, where the code reads them no more.
\* cancel: Task.cancel() was called and CancelledError is not yet thrown in.
\* no tool has been executed since the last LLM call
NoTool == [name |-> "none", result |-> "none"]
LoopAt(pc, now, snap, idx, trig, wake) ==
    [pc |-> pc, now |-> now, snap |-> snap, idx |-> idx, trig |-> trig,
     wake |-> wake, cancel |-> FALSE, iter |-> 0, resp |-> "none",
     calls |-> 0, tool |-> NoTool]
NewLoop == LoopAt("start", 0, <<>>, 0, 0, 0)
DoneLoop == LoopAt("done", 0, <<>>, 0, 0, 0)
SleepingLoop == LoopAt("sleep", 0, <<>>, 0, 0, clock + PollSeconds)
\* after the task at snap[idx]: the next task of the snapshot, or the sleep
NextOfScan(L) ==
    IF L.idx < Len(L.snap)
    THEN LoopAt("scan", L.now, L.snap, L.idx + 1, 0, 0)
    ELSE SleepingLoop
\* the scan starts: now is read once and the dict is copied
BeginScan ==
    IF Len(tasks) = 0 THEN SleepingLoop
    ELSE LoopAt("scan", clock, tasks, 1, 0, 0)

IdleCmd ==
    [pc |-> "idle", obj |-> 0, user |-> 0, text |-> <<>>, iter |-> 0, resp |-> "none",
     calls |-> 0, tool |-> NoTool]
\* the handler of /runtask holding the task object it looked up, for its owner
CmdAt(pc, obj) ==
    [pc |-> pc, obj |-> obj, user |-> objs[obj].user_id, text |-> <<>>,
     iter |-> 0, resp |-> "none", calls |-> 0, tool |-> NoTool]
\* a handler at the await of its reply "You can only ... your own tasks."
Rejected(u, obj) == [CmdAt("rejected", obj) EXCEPT !.user = u]
\* some coroutine is running its synchronous part: nothing else is scheduled
Synchronous ==
    \/ \E l \in 1..Len(loops) : loops[l].pc \in {"scan", "exec", "resp"}
    \/ cmd.pc \in {"exec", "resp"}
\* _task.cancel() has scheduled a coroutine to be resumed with CancelledError
CancelPending == \E l \in 1..Len(loops) : loops[l].cancel
\* No other coroutine is resumed now: one is running, or the resumption that
\* cancel() scheduled comes first.
Busy == Synchronous \/ CancelPending
\* the positions inside execute_task
ExecPcs == {"exec", "resp", "deliver", "notify"}

\* What claude_client.messages.create returns: a response whose stop_reason is
\* "tool_use" or not, with or without a text block in its content.
LLMResponses == {"text", "empty", "tool_use", "tool_use_text"}
\* ... or it raises
LLMOutcomes == LLMResponses \cup {"raise"}
\* response.stop_reason == "tool_use"
IsToolUse(r) == r \in {"tool_use", "tool_use_text"}
\* some block of response.content has a text: final_message is not empty
HasText(r) == r \in {"text", "tool_use_text"}

\* the `while` test written `iteration <= max_iterations`
ToolLoopContinues_OneMore(r, iteration) == IsToolUse(r) /\ iteration <= max_iterations

\* `while response.stop_reason == "tool_use" and iteration < max_iterations`
ToolLoopContinues(r, iteration) == IsToolUse(r) /\ iteration < max_iterations
\* The tool names _execute_tool passes on to the agent.
AllowedTools ==
    { "execute_mac_command", "execute_applescript", "read_mac_file", "take_screenshot",
      "execute_javascript_in_chrome", "check_mac_status" }
\* The tool names of the tool_use block of a response: those, and a tool of
\* mac_tools that _execute_tool does not know.
ToolNames == AllowedTools \cup {"order_uber_eats"}
\* What call_mac gives: a response of the agent, a failure result, or it raises.
AgentOutcomes == {"ok", "failed", "raise"}
\* the tool and the agent the scheduler specification follows
ScheduledTools == {"check_mac_status"}
ScheduledAgent == {"ok"}

\* _execute_tool calling the agent for every tool name
AgentCalls_AnyTool(name) == 1

\* the calls of call_mac that _execute_tool(name, ...) makes
AgentCalls(name) == IF name \in AllowedTools THEN 1 ELSE 0
\* what _execute_tool(name, ...) returns when call_mac gives a
ToolResult(name, a) ==
    [name |-> name,
     result |-> IF AgentCalls(name) = 0 THEN "unavailable"
                ELSE IF a = "raise" THEN "error"
                ELSE a]
\* one round of the tool loop of the execution E: _execute_tool for the
\* tool_use block, then the next LLM call is due
AfterToolRound(E, name, a) ==
    [E EXCEPT !.pc = "exec", !.iter = @ + 1, !.resp = "none",
              !.calls = @ + AgentCalls(name), !.tool = ToolResult(name, a)]
\* What the awaited send_telegram gives.
SendOutcomes == {"ok", "raise"}

Init ==
    /\ clock = StartClock
    /\ objs = <<>>
    /\ tasks = <<>>
    /\ file = NoFile
    /\ running = FALSE
    /\ loops = <<>>
    /\ cmd = IdleCmd
    /\ events = 0
    /\ pending = NoPending
    /\ agent = IdleAgent

\* time passes
Tick ==
    /\ clock + PollSeconds <= MaxClock
    /\ clock' = clock + PollSeconds
    /\ UNCHANGED <<objs, tasks, file, running, loops, cmd, events>>
    /\ UNCHANGED <<pending, agent>>

(* ----------------------------- Task store ----------------------------- *)
\* TaskScheduler.add_task
add_task(user_id, chat_id, prompt, frequency, time_spec) ==
    LET task == [NewTask(user_id, frequency, time_spec, clock)
                   EXCEPT !.chat_id = chat_id, !.prompt = prompt]
        os == Append(objs, task)
        ts == DictSet(tasks, task.task_id, Len(os))
    IN  /\ objs' = os
        /\ tasks' = ts
        /\ file' \in SaveResults(os, ts)

\* TaskScheduler.remove_task, for a task_id of the dict
remove_task(task_id) ==
    LET ts == DictDel(tasks, task_id)
    IN  /\ tasks' = ts
        /\ file' \in SaveResults(objs, ts)
        /\ UNCHANGED objs

\* `task.enabled = not task.enabled` written as `task.enabled = False`
Toggled_Disable(os, ref) == [os EXCEPT ![ref].enabled = FALSE]

\* toggle_task, `task.enabled = not task.enabled`, on the task objects os
Toggled(os, ref) == [os EXCEPT ![ref].enabled = ~@]

\* toggle_task without its `self._save_tasks()`
toggle_task_NoSave(task_id) ==
    /\ objs' = [objs EXCEPT ![get_task(task_id)].enabled = ~@]
    /\ UNCHANGED <<tasks, file>>

\* TaskScheduler.toggle_task, for a task_id of the dict
toggle_task(task_id) ==
    LET os == Toggled(objs, get_task(task_id))
    IN  /\ objs' = os
        /\ file' \in SaveResults(os, tasks)
        /\ UNCHANGED tasks

\* "Update task state" without its `self._save_tasks()`
UpdateTaskState_NoSave(ref) ==
    /\ objs' = [objs EXCEPT ![ref] = update_next_run(@, clock)]
    /\ UNCHANGED <<tasks, file>>

\* "Update task state" putting the task back into the dict under its id
UpdateTaskState_Reinsert(ref) ==
    LET os == [objs EXCEPT ![ref] = update_next_run(@, clock)]
        ts == DictSet(tasks, objs[ref].task_id, ref)
    IN  /\ objs' = os
        /\ tasks' = ts
        /\ file' \in SaveResults(os, ts)

\* execute_task, "Update task state": task.update_next_run(); self._save_tasks()
UpdateTaskState(ref) ==
    LET os == [objs EXCEPT ![ref] = update_next_run(@, clock)]
    IN  /\ objs' = os
        /\ file' \in SaveResults(os, tasks)
        /\ UNCHANGED tasks

(* --------------------------- chat commands ---------------------------- *)
\* the quoted prompt of an inline /schedule
InlinePrompt == <<Word("briefing")>>

\* schedule_command with an inline prompt, in the private chat of the caller
CmdSchedule(u, s) ==
    /\ ~Busy
    /\ cmd.pc = "idle"
    /\ Event
    /\ add_task(u, u, InlinePrompt, s[1], s[2])
    /\ UNCHANGED <<clock, running, loops, cmd>>
    /\ UNCHANGED <<pending, agent>>

\* delete_task_command without `if task.user_id != user_id:`
CmdDelete_AnyCaller(u, task_id) ==
    /\ ~Busy
    /\ cmd.pc = "idle"
    /\ Event
    /\ task_id \in KnownIds
    /\ remove_task(task_id)
    /\ UNCHANGED <<clock, running, loops, cmd>>
    /\ UNCHANGED <<pending, agent>>

\* delete_task_command
CmdDelete(u, task_id) ==
    /\ ~Busy
    /\ cmd.pc = "idle"
    /\ Event
    /\ task_id \in KnownIds
    /\ IF objs[get_task(task_id)].user_id # u
       THEN /\ cmd' = Rejected(u, get_task(task_id))
            /\ UNCHANGED <<objs, tasks, file>>
       ELSE /\ remove_task(task_id)
            /\ UNCHANGED cmd
    /\ UNCHANGED <<clock, running, loops>>
    /\ UNCHANGED <<pending, agent>>

\* toggle_task_command
CmdToggle(u, task_id) ==
    /\ ~Busy
    /\ cmd.pc = "idle"
    /\ Event
    /\ task_id \in KnownIds
    /\ IF objs[get_task(task_id)].user_id # u
       THEN /\ cmd' = Rejected(u, get_task(task_id))
            /\ UNCHANGED <<objs, tasks, file>>
       ELSE /\ toggle_task(task_id)
            /\ UNCHANGED cmd
    /\ UNCHANGED <<clock, running, loops>>
    /\ UNCHANGED <<pending, agent>>

\* run_task_command up to its first await (reply_text): the task object is held
CmdRunTask(u, task_id) ==
    /\ ~Busy
    /\ cmd.pc = "idle"
    /\ Event
    /\ task_id \in KnownIds
    /\ cmd' = IF objs[get_task(task_id)].user_id # u
              THEN Rejected(u, get_task(task_id))
              ELSE CmdAt("reply", get_task(task_id))
    /\ UNCHANGED <<clock, objs, tasks, file, running, loops>>
    /\ UNCHANGED <<pending, agent>>

\* the reply of a rejected command has been sent: the handler returns
CmdRejected ==
    /\ ~Busy
    /\ cmd.pc = "rejected"
    /\ cmd' = IdleCmd
    /\ UNCHANGED <<clock, objs, tasks, file, running, loops, events>>
    /\ UNCHANGED <<pending, agent>>

\* run_task_command: reply_text returned, await execute_task(task) begins
CmdExecute ==
    /\ ~Busy
    /\ cmd.pc = "reply"
    /\ cmd' = [cmd EXCEPT !.pc = "exec"]
    /\ UNCHANGED <<clock, objs, tasks, file, running, loops, events>>
    /\ UNCHANGED <<pending, agent>>

\* the handler's execution: an LLM call (synchronous) returns or raises
CmdLLM(r) ==
    /\ cmd.pc = "exec"
    /\ cmd' = IF r = "raise" THEN CmdAt("notify", cmd.obj)
              ELSE [cmd EXCEPT !.pc = "resp", !.resp = r, !.tool = NoTool]
    /\ UNCHANGED <<clock, objs, tasks, file, running, loops, events>>
    /\ UNCHANGED <<pending, agent>>

\* the handler's execution: one round of the tool loop, then the next LLM call
CmdToolRound(name, a) ==
    /\ cmd.pc = "resp"
    /\ ToolLoopContinues(cmd.resp, cmd.iter)
    /\ cmd' = AfterToolRound(cmd, name, a)
    /\ UNCHANGED <<clock, objs, tasks, file, running, loops, events>>
    /\ UNCHANGED <<pending, agent>>

\* the handler's execution: the tool loop is left, the text is extracted
CmdExtract ==
    /\ cmd.pc = "resp"
    /\ ~ToolLoopContinues(cmd.resp, cmd.iter)
    /\ IF HasText(cmd.resp)
       THEN /\ cmd' = CmdAt("deliver", cmd.obj)
            /\ UNCHANGED <<objs, tasks, file>>
       ELSE /\ cmd' = IdleCmd
            /\ UpdateTaskState(cmd.obj)
    /\ UNCHANGED <<clock, running, loops, events>>
    /\ UNCHANGED <<pending, agent>>

\* the delivery await of the handler's execution returns or raises
CmdDelivered(r) ==
    /\ ~Busy
    /\ cmd.pc = "deliver"
    /\ CASE r = "ok"    -> /\ cmd' = IdleCmd
                           /\ UpdateTaskState(cmd.obj)
         [] r = "raise" -> /\ cmd' = [cmd EXCEPT !.pc = "notify"]
                           /\ UNCHANGED <<objs, tasks, file>>
    /\ UNCHANGED <<clock, running, loops, events>>
    /\ UNCHANGED <<pending, agent>>

\* the error notification of the handler's execution returns or raises (except: pass)
CmdNotified ==
    /\ ~Busy
    /\ cmd.pc = "notify"
    /\ cmd' = IdleCmd
    /\ UNCHANGED <<clock, objs, tasks, file, running, loops, events>>
    /\ UNCHANGED <<pending, agent>>

(* ---------------------------- start / stop ---------------------------- *)
\* TaskScheduler.start
start ==
    /\ ~Synchronous
    /\ ~running
    /\ Len(loops) < MaxLoops
    /\ running' = TRUE
    /\ loops' = Append(loops, NewLoop)
    /\ UNCHANGED <<clock, objs, tasks, file, cmd, events>>
    /\ UNCHANGED <<pending, agent>>

\* TaskScheduler.stop: _task.cancel() has no effect on a coroutine that returned
stop ==
    /\ ~Synchronous
    /\ running' = FALSE
    /\ loops' = IF Len(loops) > 0 /\ loops[Len(loops)].pc # "done"
                THEN [loops EXCEPT ![Len(loops)].cancel = TRUE]
                ELSE loops
    /\ UNCHANGED <<clock, objs, tasks, file, cmd, events>>
    /\ UNCHANGED <<pending, agent>>

(* --------------------------- _scheduler_loop -------------------------- *)
SetLoop(l, L) == loops' = [loops EXCEPT ![l] = L]
Scanned(l) == objs[loops[l].snap[loops[l].idx]]

\* the coroutine is scheduled for the first time, or asyncio.sleep(30) returns:
\* `while self._running` is evaluated and a scan begins
LoopWake(l) ==
    /\ ~Busy
    /\ loops[l].pc \in {"start", "sleep"}
    /\ ~loops[l].cancel
    /\ loops[l].pc = "sleep" => clock >= loops[l].wake
    /\ SetLoop(l, IF running THEN BeginScan ELSE DoneLoop)
    /\ UNCHANGED <<clock, objs, tasks, file, running, cmd, events>>
    /\ UNCHANGED <<pending, agent>>

\* `if not task.enabled: continue`
LoopSkipDisabled(l) ==
    /\ loops[l].pc = "scan"
    /\ ~Scanned(l).enabled
    /\ SetLoop(l, NextOfScan(loops[l]))
    /\ UNCHANGED <<clock, objs, tasks, file, running, cmd, events>>
    /\ UNCHANGED <<pending, agent>>

\* the parse error handled as the outer `except Exception` would: the scan is left
LoopCheckError_Abort(l) ==
    /\ loops[l].pc = "scan"
    /\ Scanned(l).enabled
    /\ ~CanParseIso(Scanned(l).next_run)
    /\ SetLoop(l, SleepingLoop)
    /\ UNCHANGED <<clock, objs, tasks, file, running, cmd, events>>
    /\ UNCHANGED <<pending, agent>>

\* datetime.fromisoformat(task.next_run) raises: caught by the inner except, logged
LoopCheckError(l) ==
    /\ loops[l].pc = "scan"
    /\ Scanned(l).enabled
    /\ ~CanParseIso(Scanned(l).next_run)
    /\ SetLoop(l, NextOfScan(loops[l]))
    /\ UNCHANGED <<clock, objs, tasks, file, running, cmd, events>>
    /\ UNCHANGED <<pending, agent>>

\* the comparison written `now > next_run`
IsDue_Strict(now, next_run) == now > next_run

\* the comparison of the scan: `if now >= next_run`
IsDue(now, next_run) == now >= next_run

\* the task is not due
LoopNotDue(l) ==
    /\ loops[l].pc = "scan"
    /\ Scanned(l).enabled
    /\ CanParseIso(Scanned(l).next_run)
    /\ ~IsDue(loops[l].now, fromisoformat(Scanned(l).next_run))
    /\ SetLoop(l, NextOfScan(loops[l]))
    /\ UNCHANGED <<clock, objs, tasks, file, running, cmd, events>>
    /\ UNCHANGED <<pending, agent>>

\* the dispatch without `if not task.enabled: continue` before it
LoopDispatch_IgnoreEnabled(l) ==
    /\ loops[l].pc = "scan"
    /\ CanParseIso(Scanned(l).next_run)
    /\ IsDue(loops[l].now, fromisoformat(Scanned(l).next_run))
    /\ SetLoop(l, [loops[l] EXCEPT !.pc = "exec",
                                   !.trig = fromisoformat(Scanned(l).next_run)])
    /\ UNCHANGED <<clock, objs, tasks, file, running, cmd, events>>
    /\ UNCHANGED <<pending, agent>>

\* the task is due: `await self.execute_task(task)` begins
LoopDispatch(l) ==
    /\ loops[l].pc = "scan"
    /\ Scanned(l).enabled
    /\ CanParseIso(Scanned(l).next_run)
    /\ IsDue(loops[l].now, fromisoformat(Scanned(l).next_run))
    /\ SetLoop(l, [loops[l] EXCEPT !.pc = "exec",
                                   !.trig = fromisoformat(Scanned(l).next_run)])
    /\ UNCHANGED <<clock, objs, tasks, file, running, cmd, events>>
    /\ UNCHANGED <<pending, agent>>

\* the loop's execution: an LLM call (synchronous) returns or raises
LoopLLM(l, r) ==
    /\ loops[l].pc = "exec"
    /\ SetLoop(l, IF r = "raise"
                  THEN [loops[l] EXCEPT !.pc = "notify", !.iter = 0, !.resp = "none",
                                        !.calls = 0, !.tool = NoTool]
                  ELSE [loops[l] EXCEPT !.pc = "resp", !.resp = r, !.tool = NoTool])
    /\ UNCHANGED <<clock, objs, tasks, file, running, cmd, events>>
    /\ UNCHANGED <<pending, agent>>

\* the loop's execution: one round of the tool loop, then the next LLM call
LoopToolRound(l, name, a) ==
    /\ loops[l].pc = "resp"
    /\ ToolLoopContinues(loops[l].resp, loops[l].iter)
    /\ SetLoop(l, AfterToolRound(loops[l], name, a))
    /\ UNCHANGED <<clock, objs, tasks, file, running, cmd, events>>
    /\ UNCHANGED <<pending, agent>>

\* the loop's execution: the tool loop is left, the text is extracted
LoopExtract(l) ==
    /\ loops[l].pc = "resp"
    /\ ~ToolLoopContinues(loops[l].resp, loops[l].iter)
    /\ IF HasText(loops[l].resp)
       THEN /\ SetLoop(l, [loops[l] EXCEPT !.pc = "deliver", !.iter = 0, !.resp = "none",
                                            !.calls = 0, !.tool = NoTool])
            /\ UNCHANGED <<objs, tasks, file>>
       ELSE /\ SetLoop(l, NextOfScan(loops[l]))
            /\ UpdateTaskState(loops[l].snap[loops[l].idx])
    /\ UNCHANGED <<clock, running, cmd, events>>
    /\ UNCHANGED <<pending, agent>>

\* the delivery await of the loop's execution returns or raises
LoopDelivered(l, r) ==
    /\ ~Busy
    /\ loops[l].pc = "deliver"
    /\ ~loops[l].cancel
    /\ CASE r = "ok"    -> /\ SetLoop(l, NextOfScan(loops[l]))
                           /\ UpdateTaskState(loops[l].snap[loops[l].idx])
         [] r = "raise" -> /\ SetLoop(l, [loops[l] EXCEPT !.pc = "notify"])
                           /\ UNCHANGED <<objs, tasks, file>>
    /\ UNCHANGED <<clock, running, cmd, events>>
    /\ UNCHANGED <<pending, agent>>

\* the error path of the loop's execution with the "Update task state" of the
\* normal path
LoopNotified_Updates(l) ==
    /\ ~Busy
    /\ loops[l].pc = "notify"
    /\ ~loops[l].cancel
    /\ SetLoop(l, NextOfScan(loops[l]))
    /\ UpdateTaskState(loops[l].snap[loops[l].idx])
    /\ UNCHANGED <<clock, running, cmd, events>>
    /\ UNCHANGED <<pending, agent>>

\* the error notification of the loop's execution returns or raises (except: pass)
LoopNotified(l) ==
    /\ ~Busy
    /\ loops[l].pc = "notify"
    /\ ~loops[l].cancel
    /\ SetLoop(l, NextOfScan(loops[l]))
    /\ UNCHANGED <<clock, objs, tasks, file, running, cmd, events>>
    /\ UNCHANGED <<pending, agent>>

\* Where CancelledError, thrown in at the await the coroutine is suspended in,
\* leaves it.  It is no Exception: from asyncio.sleep and from the delivery it
\* reaches `except asyncio.CancelledError: break`; in the error notification
\* the bare `except: pass` swallows it and the for loop goes on.  A loop that
\* ended in its sleep keeps the deadline of that sleep.
AfterCancel(L) ==
    IF L.pc = "notify" THEN NextOfScan(L) ELSE [DoneLoop EXCEPT !.wake = L.wake]

\* the cancellation requested by stop() is delivered
LoopCancelled(l) ==
    /\ ~Synchronous
    /\ loops[l].cancel
    /\ loops[l].pc \in {"start", "sleep", "deliver", "notify"}
    /\ SetLoop(l, AfterCancel(loops[l]))
    /\ UNCHANGED <<clock, objs, tasks, file, running, cmd, events>>
    /\ UNCHANGED <<pending, agent>>

(* ------------------------------ restart ------------------------------- *)
\* The process ends and a new one constructs TaskScheduler: _load_tasks
Restart ==
    /\ Event
    /\ objs' = LoadedObjs(file)
    /\ tasks' = [i \in 1..Len(LoadedObjs(file)) |-> i]
    /\ running' = FALSE
    /\ loops' = <<>>
    /\ cmd' = IdleCmd
    /\ pending' = NoPending
    /\ UNCHANGED <<clock, file, agent>>

Next ==
    \/ Tick
    \/ \E u \in Users, s \in Schedules : CmdSchedule(u, s)
    \/ \E u \in Callers, id \in KnownIds : CmdDelete(u, id)
    \/ \E u \in Callers, id \in KnownIds : CmdToggle(u, id)
    \/ \E u \in Callers, id \in KnownIds : CmdRunTask(u, id)
    \/ CmdRejected
    \/ CmdExecute
    \/ \E r \in LLMOutcomes : CmdLLM(r)
    \/ \E name \in ScheduledTools, a \in ScheduledAgent : CmdToolRound(name, a)
    \/ CmdExtract
    \/ \E r \in SendOutcomes : CmdDelivered(r)
    \/ CmdNotified
    \/ start
    \/ stop
    \/ \E l \in 1..Len(loops) : LoopWake(l)
    \/ \E l \in 1..Len(loops) : LoopSkipDisabled(l)
    \/ \E l \in 1..Len(loops) : LoopCheckError(l)
    \/ \E l \in 1..Len(loops) : LoopNotDue(l)
    \/ \E l \in 1..Len(loops) : LoopDispatch(l)
    \/ \E l \in 1..Len(loops), r \in LLMOutcomes : LoopLLM(l, r)
    \/ \E l \in 1..Len(loops), name \in ScheduledTools, a \in ScheduledAgent :
          LoopToolRound(l, name, a)
    \/ \E l \in 1..Len(loops) : LoopExtract(l)
    \/ \E l \in 1..Len(loops), r \in SendOutcomes : LoopDelivered(l, r)
    \/ \E l \in 1..Len(loops) : LoopNotified(l)
    \/ \E l \in 1..Len(loops) : LoopCancelled(l)
    \/ Restart

Spec == Init /\ [][Next]_vars

(* ------------------ the Recurrence calculator, alone ------------------ *)
\* An instant of the week of the epoch.
At(day, hour, minute, second) ==
    (day * SecondsPerDay) + (hour * SecondsPerHour) + (minute * SecondsPerMinute) + second

\* The instants at which a ScheduledTask is constructed.
CalcClocks ==
    { At(0, 0, 0, 0), At(0, 8, 59, 59), At(0, 9, 0, 0), At(0, 9, 0, 30),
      At(2, 14, 30, 0), At(2, 14, 31, 0), At(6, 9, 0, 0), At(6, 23, 59, 30) }
\* How long the time passes in one step.
CalcSteps == { PollSeconds, SecondsPerHour, SecondsPerDay }
\* The (frequency, time_spec) pairs a ScheduledTask is constructed with.
CalcSchedules ==
    { <<"daily", ts>> : ts \in { <<0, 0>>, <<9, 0>>, <<14, 30>>, <<23, 59>>, <<24, 0>> } }
    \cup { <<"weekly", <<d, hm[1], hm[2]>> >> :
             d \in {0, 2, 6}, hm \in { <<0, 0>>, <<9, 0>>, <<14, 30>> } }
    \cup { <<"weekly", <<0, 9>> >> }
    \cup { <<"hourly", ts>> : ts \in { <<0>>, <<30>>, <<60>> } }
    \cup { <<"custom", ts>> : ts \in { <<1>>, <<30>>, <<90>> } }

InitCalc ==
    /\ clock \in CalcClocks
    /\ objs = <<>>
    /\ tasks = <<>>
    /\ file = NoFile
    /\ running = FALSE
    /\ loops = <<>>
    /\ cmd = IdleCmd
    /\ events = 0
    /\ pending = NoPending
    /\ agent = IdleAgent

\* ScheduledTask(...): the constructor and __post_init__
Construct(s) ==
    /\ objs = <<>>
    /\ objs' = <<NewTask(1, s[1], s[2], clock)>>
    /\ UNCHANGED <<clock, tasks, file, running, loops, cmd, events>>
    /\ UNCHANGED <<pending, agent>>

\* time passes
CalcPass(d) ==
    /\ Event
    /\ clock' = clock + d
    /\ UNCHANGED <<objs, tasks, file, running, loops, cmd>>
    /\ UNCHANGED <<pending, agent>>

\* task.update_next_run()
Update ==
    /\ Len(objs) = 1
    /\ objs[1].run_count < MaxRuns
    /\ objs' = [objs EXCEPT ![1] = update_next_run(@, clock)]
    /\ UNCHANGED <<clock, tasks, file, running, loops, cmd, events>>
    /\ UNCHANGED <<pending, agent>>

NextCalc ==
    \/ \E s \in CalcSchedules : Construct(s)
    \/ \E d \in CalcSteps : CalcPass(d)
    \/ Update

SpecCalc == InitCalc /\ [][NextCalc]_vars

(* ----------------------- the startup load, alone ----------------------- *)
\* A file that cannot be read or is not JSON.
CorruptFile == [state |-> "corrupt", data |-> <<>>]
\* task_data without the fields ScheduledTask requires
InvalidRecord == [task_id |-> <<1, 0>>, user_id |-> 1]
\* task_data with a key that is no field of ScheduledTask
UnknownFieldRecord == NewTask(1, "daily", <<0, 0>>, StartClock) @@ [colour |-> "red"]
\* The records a task file is made of: saved tasks, task_data without the
\* optional fields, and task_data that cannot be constructed.
LoadRecords ==
    { NewTask(1, s[1], s[2], StartClock - PollSeconds) : s \in Schedules }
    \cup { [task_id |-> <<1, 0>>, user_id |-> 1, chat_id |-> 1, prompt |-> <<>>,
            frequency |-> "daily", time_spec |-> <<0, 0>>],
           InvalidRecord, UnknownFieldRecord }
\* The files the process can find on disk when it starts: the key of record i is i.
Files ==
    { NoFile, CorruptFile }
    \cup { [state |-> "ok", data |-> [i \in 1..n |-> [d[i] EXCEPT !.task_id = <<1, i>>]]] :
             n \in 0..MaxRecords, d \in [1..MaxRecords -> LoadRecords] }

InitLoad ==
    /\ clock = StartClock
    /\ objs = <<>>
    /\ tasks = <<>>
    /\ file \in Files
    /\ running = FALSE
    /\ loops = <<>>
    /\ cmd = IdleCmd
    /\ events = 0
    /\ pending = NoPending
    /\ agent = IdleAgent

NextLoad == Restart

SpecLoad == InitLoad /\ [][NextLoad]_vars

(* ------------------------ one execution, alone ------------------------ *)
\* /runtask has entered execute_task for the only task of the store, which
\* was stored with or without use_tools
InitExec ==
    /\ clock = StartClock
    /\ \E use_tools \in BOOLEAN :
          objs = << [NewTask(1, "daily", <<0, 0>>, StartClock - PollSeconds)
                       EXCEPT !.use_tools = use_tools] >>
    /\ tasks = <<1>>
    /\ file = Serialize(objs, tasks)
    /\ running = FALSE
    /\ loops = <<>>
    /\ cmd = CmdAt("exec", 1)
    /\ events = 0
    /\ pending = NoPending
    /\ agent = IdleAgent

NextExec ==
    \/ \E r \in LLMOutcomes : CmdLLM(r)
    \/ \E name \in ToolNames, a \in AgentOutcomes : CmdToolRound(name, a)
    \/ CmdExtract
    \/ \E r \in SendOutcomes : CmdDelivered(r)
    \/ CmdNotified

SpecExec == InitExec /\ [][NextExec]_vars

(* ------------------- the multi-turn create flow, alone ---------------- *)
\* A chat that is not the private chat of a user.
GroupChat == 100
\* The chats a message comes from: the private chat of a user has the user's id.
Chats == Callers \cup {GroupChat}
\* The texts the users send: a prompt, a schedule, a schedule that
\* parse_schedule_input raises on.
FlowTexts ==
    { <<Word("briefing")>>, <<Word("daily"), Num(9, -1)>>, <<Num(25, -1), Word("tomorrow")>> }
\* The entries of pending_schedule_prompts.
Flows ==
    { NoFlow }
    \cup { [step |-> "prompt", chat_id |-> c, prompt |-> <<>>] : c \in Chats }
    \cup { [step |-> "schedule", chat_id |-> c, prompt |-> t] : c \in Chats, t \in FlowTexts }

\* The bot with users anywhere in their flows, and an empty store.
InitFlow ==
    /\ clock = StartClock
    /\ objs = <<>>
    /\ tasks = <<>>
    /\ file = NoFile
    /\ running = FALSE
    /\ loops = <<>>
    /\ cmd = IdleCmd
    /\ events = 0
    /\ pending \in [Callers -> Flows]
    /\ agent = IdleAgent

\* schedule_command without an inline prompt: the flow of the user begins
CmdScheduleInteractive(u, chat) ==
    /\ ~Busy
    /\ cmd.pc = "idle"
    /\ Event
    /\ pending' = [pending EXCEPT ![u] = [step |-> "prompt", chat_id |-> chat,
                                          prompt |-> <<>>]]
    /\ UNCHANGED <<clock, objs, tasks, file, running, loops, cmd, agent>>

\* handle_text_message: handle_schedule_flow takes the text as the prompt or
\* as the schedule of the flow of the user, or the text goes to the chat with
\* the LLM; when parse_schedule_input raises the handler ends there
TextMessage(u, text) ==
    /\ ~Busy
    /\ cmd.pc = "idle"
    /\ Event
    /\ CASE pending[u].step = "none" ->
              UNCHANGED <<objs, tasks, file, pending>>
         [] pending[u].step = "prompt" ->
              /\ pending' = [pending EXCEPT ![u].prompt = text, ![u].step = "schedule"]
              /\ UNCHANGED <<objs, tasks, file>>
         [] pending[u].step = "schedule" ->
              LET r == parse_schedule_input(text, clock)
              IN  IF r.raises
                  THEN UNCHANGED <<objs, tasks, file, pending>>
                  ELSE /\ add_task(u, pending[u].chat_id, pending[u].prompt,
                                   r.frequency, r.time_spec)
                       /\ pending' = [pending EXCEPT ![u] = NoFlow]
    /\ UNCHANGED <<clock, running, loops, cmd, agent>>

NextFlow ==
    \/ \E u \in Callers, chat \in Chats : CmdScheduleInteractive(u, chat)
    \/ \E u \in Callers, text \in FlowTexts : TextMessage(u, text)

SpecFlow == InitFlow /\ [][NextFlow]_vars

(* ---------------------- the agent's server, alone ---------------------- *)
\* Requests the bot sends in a run.
MaxRequests == 4
\* Interrupt checks an operation makes before it finishes.
MaxChecks == 2
\* The actions of handle_request that read or write INTERRUPT_FLAG.
AgentActions == {"order_uber_eats", "interrupt", "clear_interrupt"}

InitAgent ==
    /\ clock = StartClock
    /\ objs = <<>>
    /\ tasks = <<>>
    /\ file = NoFile
    /\ running = FALSE
    /\ loops = <<>>
    /\ cmd = IdleCmd
    /\ events = 0
    /\ pending = NoPending
    /\ agent = IdleAgent

\* call_mac_sync: the bot connects and sends its request; the connection waits
\* in the listen queue of the server until the accept loop takes it.  The
\* request remembers the operation it was sent during, and the check that
\* operation was at.
Connect(action) ==
    /\ agent.sent < MaxRequests
    /\ agent' = [agent EXCEPT
                    !.sent = @ + 1,
                    !.backlog = Append(@, [action |-> action, during |-> agent.op,
                                           at |-> agent.check])]
    /\ UNCHANGED <<clock, objs, tasks, file, running, loops, cmd, events, pending>>

\* The accept loop, between two requests: it takes the oldest connection and
\* calls handle_request.  order_uber_eats begins with clear_interrupt().
Accept ==
    /\ agent.op = 0
    /\ agent.backlog # <<>>
    /\ LET req == Head(agent.backlog)
       IN  agent' = [agent EXCEPT
                       !.backlog = Tail(@),
                       !.flag = IF req.action = "interrupt" THEN TRUE ELSE FALSE,
                       !.op = IF req.action = "order_uber_eats"
                              THEN Len(agent.replies) + 1 ELSE 0,
                       !.check = 0]
    /\ UNCHANGED <<clock, objs, tasks, file, running, loops, cmd, events, pending>>

\* check_interrupt inside the running operation: cancelled result when the flag
\* is set
OpCheck ==
    /\ agent.op # 0
    /\ agent.check < MaxChecks
    /\ agent' = IF agent.flag
                THEN [agent EXCEPT !.op = 0, !.check = 0,
                                   !.replies = Append(@, "cancelled")]
                ELSE [agent EXCEPT !.check = @ + 1]
    /\ UNCHANGED <<clock, objs, tasks, file, running, loops, cmd, events, pending>>

\* the operation returns its result and the accept loop answers the connection
OpDone ==
    /\ agent.op # 0
    /\ agent.check = MaxChecks
    /\ agent' = [agent EXCEPT !.op = 0, !.check = 0, !.replies = Append(@, "done")]
    /\ UNCHANGED <<clock, objs, tasks, file, running, loops, cmd, events, pending>>

NextAgent ==
    \/ \E action \in AgentActions : Connect(action)
    \/ Accept
    \/ OpCheck
    \/ OpDone

SpecAgent == InitAgent /\ [][NextAgent]_vars

(* ------------------ the natural-language parser, alone ----------------- *)
\* The words of the schedule texts.
Vocabulary ==
    { Word(w) : w \in { "daily", "every", "day", "at", "monday", "hourly", "hour",
                        "minute", "in", "tomorrow", "am", "pm" } }
    \cup { Num(9, -1), Num(12, -1), Num(25, -1), Num(14, 30) }
\* The schedule texts a user sends.
Texts == UNION { [1..n -> Vocabulary] : n \in 0..MaxWords }

\* handle_schedule_flow has received the schedule text of a user, step "schedule"
InitParse ==
    /\ clock = StartClock
    /\ objs = <<>>
    /\ tasks = <<>>
    /\ file = NoFile
    /\ running = FALSE
    /\ loops = <<>>
    /\ \E u \in Users, text \in Texts :
          cmd = [IdleCmd EXCEPT !.pc = "schedule", !.user = u, !.text = text]
    /\ events = 0
    /\ pending = NoPending
    /\ agent = IdleAgent

\* handle_schedule_flow, step "schedule": parse_schedule_input(text), add_task;
\* when the parse raises the handler ends there
CmdScheduleText ==
    /\ ~Busy
    /\ cmd.pc = "schedule"
    /\ LET r == parse_schedule_input(cmd.text, clock)
       IN  IF r.raises
           THEN UNCHANGED <<objs, tasks, file>>
           ELSE add_task(cmd.user, cmd.user, InlinePrompt, r.frequency, r.time_spec)
    /\ cmd' = IdleCmd
    /\ UNCHANGED <<clock, running, loops, events>>
    /\ UNCHANGED <<pending, agent>>

NextParse == CmdScheduleText

SpecParse == InitParse /\ [][NextParse]_vars

(* ====================================================================== *)
(*                               Properties                               *)
(* ====================================================================== *)
\* loop l takes a step and is still a coroutine of this process afterwards
\* (a cancellation request alone is a step of stop(), not of the loop)
LoopStep(l) ==
    /\ l <= Len(loops')
    /\ [loops'[l] EXCEPT !.cancel = FALSE] # [loops[l] EXCEPT !.cancel = FALSE]
\* the task object loop l is at
ScannedRef(l) == loops[l].snap[loops[l].idx]
\* the execution of loop l ends in this step (execute_task returns or is left)
LoopExecEnds(l) ==
    /\ loops[l].pc \in ExecPcs
    /\ l <= Len(loops')
    /\ loops'[l].pc \notin ExecPcs
\* the objects of this process are still those of the next state
SameProcess == Len(objs') >= Len(objs) /\ events' = events

\* C1: every time the scheduler loop executes a daily, weekly, hourly or custom
\* task because its stored next_run is <= now, the next_run stored when that
\* execution returns is strictly greater than the next_run that triggered it.
C1_NextRunAdvances ==
    [][\A l \in 1..Len(loops) :
         (LoopExecEnds(l) /\ Scanned(l).frequency # "once")
         => /\ CanParseIso(objs'[ScannedRef(l)].next_run)
            /\ fromisoformat(objs'[ScannedRef(l)].next_run) > loops[l].trig]_vars

C3_OnceDisabledOnReturn ==
    [][/\ \A l \in 1..Len(loops) :
            (LoopExecEnds(l) /\ Scanned(l).frequency = "once")
            => ~objs'[ScannedRef(l)].enabled
       /\ (cmd.pc \in ExecPcs /\ cmd'.pc = "idle" /\ SameProcess
             /\ objs[cmd.obj].frequency = "once")
            => ~objs'[cmd.obj].enabled]_vars

\* C4: a once task that has run is disabled in every later state and is not
\* being executed by the scheduler loop again.
C4_OncePermanentlyDisabled ==
    /\ \A ref \in 1..Len(objs) :
         (objs[ref].frequency = "once" /\ objs[ref].run_count >= 1)
         => ~objs[ref].enabled
    /\ \A l \in 1..Len(loops) :
         loops[l].pc \in ExecPcs
         => ~(Scanned(l).frequency = "once" /\ Scanned(l).run_count >= 1)

\* C5: a scan takes the dict as it is and the clock as it is when it begins,
\* visits the snapshot task by task, and dispatches the task it is at whenever
\* that task is enabled and its stored next_run is <= the scan's now.
C5_DueIsDispatched ==
    [][\A l \in 1..Len(loops) :
         /\ (LoopStep(l) /\ loops[l].pc \in {"start", "sleep"} /\ loops'[l].pc = "scan")
            => (loops'[l].snap = tasks /\ loops'[l].now = clock /\ loops'[l].idx = 1)
         /\ (LoopStep(l) /\ loops[l].pc # "scan" /\ loops'[l].pc = "scan"
               /\ loops[l].pc \notin {"start", "sleep"})
            => (loops'[l].snap = loops[l].snap /\ loops'[l].idx = loops[l].idx + 1)
         /\ (LoopStep(l) /\ loops[l].pc = "scan" /\ Scanned(l).enabled
               /\ CanParseIso(Scanned(l).next_run)
               /\ fromisoformat(Scanned(l).next_run) <= loops[l].now)
            => (loops'[l].pc = "exec" /\ loops'[l].idx = loops[l].idx
                  /\ loops'[l].snap = loops[l].snap)]_vars

\* C5 witness: the loop executes a once task whose time_spec was already past
\* when it was created, in a scan that began at the instant of its creation
C5_Witness ==
    \E l \in 1..Len(loops) :
        /\ loops[l].pc = "exec"
        /\ Scanned(l).frequency = "once"
        /\ Scanned(l).run_count = 0
        /\ fromisoformat(Scanned(l).time_spec) < Scanned(l).task_id[2]
        /\ loops[l].now = Scanned(l).task_id[2]

\* C6: the loop begins an execution only from its scan, of the task it is at,
\* and only if that task is enabled and its stored next_run is <= the now read
\* at the start of the scan, which the scan keeps.
C6_DispatchOnlyIfDue ==
    [][\A l \in 1..Len(loops) :
         /\ (LoopStep(l) /\ loops[l].pc \notin ExecPcs /\ loops'[l].pc \in ExecPcs)
            => /\ loops[l].pc = "scan"
               /\ loops'[l].pc = "exec"
               /\ Scanned(l).enabled
               /\ CanParseIso(Scanned(l).next_run)
               /\ fromisoformat(Scanned(l).next_run) <= loops[l].now
               /\ loops'[l].snap[loops'[l].idx] = ScannedRef(l)
         /\ (LoopStep(l) /\ loops[l].pc \in ({"scan"} \cup ExecPcs)
               /\ loops'[l].pc \in ({"scan"} \cup ExecPcs))
            => loops'[l].now = loops[l].now]_vars

\* C6 witness: the loop has dispatched a recurring task at the very instant of
\* its next_run (next_run = now, the boundary of the comparison)
C6_Witness ==
    \E l \in 1..Len(loops) :
        /\ loops[l].pc = "exec"
        /\ Scanned(l).frequency = "daily"
        /\ Scanned(l).enabled
        /\ loops[l].trig = loops[l].now
        /\ Scanned(l).next_run = isoformat(loops[l].now)

\* C7: execute never propagates an exception to its caller: a coroutine that is
\* inside execute_task leaves it by a normal return, so the scheduler loop goes
\* on with its for loop or its sleep.
C7_ExecuteNeverRaises ==
    [][\A l \in 1..Len(loops) :
         LoopExecEnds(l) => loops'[l].pc \in {"scan", "sleep"}]_vars

\* C8: an error at one task of a scan (a next_run that does not parse, or an
\* execution that ended in the executor's error path) leaves the loop at the
\* next task of the same scan, or in its sleep when that task was the last.
C8_ErrorDoesNotStopScan ==
    [][\A l \in 1..Len(loops) :
         (/\ LoopStep(l)
          /\ \/ loops[l].pc = "scan" /\ Scanned(l).enabled
                  /\ ~CanParseIso(Scanned(l).next_run)
             \/ loops[l].pc = "notify")
         => IF loops[l].idx < Len(loops[l].snap)
            THEN /\ loops'[l].pc = "scan"
                 /\ loops'[l].idx = loops[l].idx + 1
                 /\ loops'[l].snap = loops[l].snap
                 /\ loops'[l].now = loops[l].now
            ELSE loops'[l].pc = "sleep"]_vars

\* C8 witness: the second task of a scan is executed after the first task's
\* next_run failed to parse
C8_Witness ==
    \E l \in 1..Len(loops) :
        /\ loops[l].pc = "exec"
        /\ loops[l].idx = 2
        /\ objs[loops[l].snap[1]].enabled
        /\ ~CanParseIso(objs[loops[l].snap[1]].next_run)

\* C9: in no reachable state are two executions in progress at once.
C9_ExecutionsSequential ==
    Cardinality({ l \in 1..Len(loops) : loops[l].pc \in ExecPcs })
      + (IF cmd.pc \in ExecPcs THEN 1 ELSE 0) <= 1

\* C10: when stop() was called while an execution of the loop awaits its
\* delivery, the execution goes on: the state update is applied and persisted
\* (or the delivery fails and the error path is taken).
C10_StopLetsExecutionComplete ==
    [][\A l \in 1..Len(loops) :
         (LoopStep(l) /\ loops[l].pc = "deliver" /\ loops[l].cancel)
         => \/ /\ objs'[ScannedRef(l)] = update_next_run(Scanned(l), clock)
               /\ file' = Serialize(objs', tasks')
            \/ loops'[l].pc = "notify"]_vars

\* the process is restarted in this step
RestartStep ==
    /\ events' = events + 1
    /\ objs' = LoadedObjs(file)
    /\ tasks' = [i \in 1..Len(objs') |-> i]
    /\ file' = file
    /\ loops' = <<>>
    /\ cmd' = IdleCmd
    /\ running' = FALSE
\* loop l begins an execution in this step
LoopDispatches(l) ==
    /\ LoopStep(l)
    /\ loops[l].pc = "scan"
    /\ loops'[l].pc = "exec"
\* the records of the tasks of the dict, in order
StoreRecords == [i \in 1..Len(tasks) |-> objs[tasks[i]]]

\* the scheduler is stopped and stop() found its loop (_task) in the polling
\* sleep: the cancellation is pending, or it has ended the loop
StoppedInSleep ==
    /\ ~running
    /\ Len(loops) > 0
    /\ \/ loops[Len(loops)].cancel /\ loops[Len(loops)].pc = "sleep"
       \/ loops[Len(loops)].pc = "done" /\ loops[Len(loops)].wake # 0

\* C11: a loop whose cancellation was requested in its polling sleep terminates
\* at its next step, and from a stop() that found the loop in its sleep until
\* the next start() no task is dispatched.
C11_StoppedNoDispatch ==
    [][/\ \A l \in 1..Len(loops) :
            (LoopStep(l) /\ loops[l].cancel /\ loops[l].pc = "sleep")
            => loops'[l].pc = "done"
       /\ StoppedInSleep => \A l \in 1..Len(loops) : ~LoopDispatches(l)]_vars

\* C12: one execution makes at most 5 tool rounds and at most 6 LLM calls (the
\* call in progress or answered is call number iteration + 1), every tool round
\* counts one iteration, and the response of the call made after the 5th round
\* ends the tool loop whatever it is.
C12_ToolLoopBounded ==
    [][/\ \A l \in 1..Len(loops) :
            LoopStep(l) =>
              /\ loops'[l].pc \in {"exec", "resp"}
                   => (loops'[l].iter <= 5 /\ loops'[l].iter + 1 <= 6)
              /\ (loops[l].pc = "resp" /\ loops'[l].pc = "exec")
                   => loops'[l].iter = loops[l].iter + 1
              /\ (loops[l].pc = "resp" /\ loops[l].iter = 5)
                   => loops'[l].pc \notin {"exec", "resp"}
       /\ cmd'.pc \in {"exec", "resp"} => (cmd'.iter <= 5 /\ cmd'.iter + 1 <= 6)
       /\ (cmd.pc = "resp" /\ cmd'.pc = "exec") => cmd'.iter = cmd.iter + 1
       /\ (cmd.pc = "resp" /\ cmd.iter = 5 /\ cmd' # cmd)
            => cmd'.pc \notin {"exec", "resp"}]_vars

\* C12 witness: the 6th LLM call of an execution of the loop was answered by a
\* tool-use response, after 5 tool rounds
C12_Witness ==
    \E l \in 1..Len(loops) :
        /\ loops[l].pc = "resp"
        /\ loops[l].iter = max_iterations
        /\ IsToolUse(loops[l].resp)

\* C13: when the 6th consecutive response of an execution is a tool-use
\* response, the execution goes on to deliver a message to the task's chat.
C13_SixToolUsesDeliver ==
    [][/\ \A l \in 1..Len(loops) :
            (LoopStep(l) /\ loops[l].pc = "resp" /\ loops[l].iter = 5
               /\ IsToolUse(loops[l].resp))
            => loops'[l].pc = "deliver"
       /\ (cmd.pc = "resp" /\ cmd.iter = 5 /\ IsToolUse(cmd.resp) /\ cmd' # cmd)
            => cmd'.pc = "deliver"]_vars

\* C14: in every reachable state every task of the store has a next_run that is
\* a valid ISO-8601 timestamp.
C14_NextRunAlwaysIso ==
    \A i \in 1..Len(tasks) : CanParseIso(objs[tasks[i]].next_run)

\* C15: a task constructed with a time_spec outside the grammar of its frequency
\* gets a next_run that is an instant strictly later than its construction.
C15_MalformedFallsBackToFuture ==
    [][(Len(objs') = Len(objs) + 1
          /\ ~WellFormed(objs'[Len(objs')].frequency, objs'[Len(objs')].time_spec))
       => /\ CanParseIso(objs'[Len(objs')].next_run)
          /\ fromisoformat(objs'[Len(objs')].next_run) > clock]_vars

\* C16: every add stores one task more, under an id that no stored task had.
C16_AddGeneratesFreshId ==
    [][Len(objs') = Len(objs) + 1
       => /\ Len(tasks') = Len(tasks) + 1
          /\ objs'[Len(objs')].task_id \notin KnownIds]_vars

C18_RemovedNeverExecuted ==
    [][\A l \in 1..Len(loops) :
         LoopDispatches(l) => Scanned(l).task_id \in KnownIds]_vars

\* C19: the task file holds the serialization of the in-memory map (no file
\* while nothing was ever stored), and loading it gives the records of the map.
C19_FileEqualsStore ==
    /\ file = NoFile \/ file = Serialize(objs, tasks)
    /\ file = NoFile => tasks = <<>>
    /\ LoadedObjs(file) = StoreRecords

\* C19 witness: the file holds a recurring task that has run and was disabled
\* afterwards, and the map holds another task
C19_Witness ==
    /\ Len(tasks) = 2
    /\ \E i \in 1..Len(file.data) :
         /\ file.data[i].frequency = "daily"
         /\ file.data[i].run_count >= 1
         /\ ~file.data[i].enabled

\* C20: saving the store and loading the file gives the same ids and the same
\* value of every field, so that saving again writes the same file.
C20_SaveLoadRoundTrip ==
    LET saved == Serialize(objs, tasks)
        loaded == LoadedObjs(saved)
    IN  /\ loaded = StoreRecords
        /\ Serialize(loaded, [i \in 1..Len(loaded) |-> i]) = saved

\* C20 witness: the store holds a task that has run (last_run, run_count and
\* next_run differ from their values at construction) at an instant later than
\* its creation
C20_Witness ==
    \E i \in 1..Len(tasks) :
        /\ objs[tasks[i]].frequency = "daily"
        /\ objs[tasks[i]].run_count >= 1
        /\ objs[tasks[i]].last_run # <<>>
        /\ objs[tasks[i]].task_id[2] < clock

\* the next_run of the task of the calculator specification is computed in this step
Computed(frequency) ==
    /\ Len(objs') = 1
    /\ objs'[1].frequency = frequency
    /\ WellFormed(frequency, objs'[1].time_spec)
    /\ Len(objs) = 0 \/ objs'[1].run_count = objs[1].run_count + 1
\* today at the HH:MM of a daily time_spec
TodayAt(time_spec, now) ==
    DayStart(now) + (time_spec[1] * SecondsPerHour) + (time_spec[2] * SecondsPerMinute)

\* C21: the next_run computed for a daily task with a valid HH:MM is strictly
\* later than now: today at HH:MM when that is after now, tomorrow at HH:MM
\* otherwise.
C21_DailyTodayOrTomorrow ==
    [][Computed("daily")
       => /\ CanParseIso(objs'[1].next_run)
          /\ fromisoformat(objs'[1].next_run) > clock
          /\ fromisoformat(objs'[1].next_run)
               = IF TodayAt(objs'[1].time_spec, clock) > clock
                 THEN TodayAt(objs'[1].time_spec, clock)
                 ELSE TodayAt(objs'[1].time_spec, clock) + SecondsPerDay]_vars

\* C21 witness: a daily task constructed at its very HH:MM:00 is due tomorrow
C21_Witness ==
    /\ Len(objs) = 1
    /\ objs[1].frequency = "daily"
    /\ WellFormed("daily", objs[1].time_spec)
    /\ objs[1].run_count = 0
    /\ objs[1].task_id[2] = TodayAt(objs[1].time_spec, objs[1].task_id[2])
    /\ objs[1].next_run = isoformat(objs[1].task_id[2] + SecondsPerDay)

\* C22: the next_run computed for a weekly task with a valid time_spec is on
\* the requested weekday at HH:MM:00, strictly later than now and at most 7
\* days after now.
C22_WeeklyOnRequestedDay ==
    [][Computed("weekly")
       => LET t == fromisoformat(objs'[1].next_run)
              time_spec == objs'[1].time_spec
          IN  /\ CanParseIso(objs'[1].next_run)
              /\ Weekday(t) = time_spec[1]
              /\ t = DayStart(t) + (time_spec[2] * SecondsPerHour)
                                 + (time_spec[3] * SecondsPerMinute)
              /\ t > clock
              /\ t <= clock + (DaysPerWeek * SecondsPerDay)]_vars

\* C22 witness: a weekly task updated on its weekday within its minute, after
\* the :00 second, is due on the same weekday of the next week
C22_Witness ==
    /\ Len(objs) = 1
    /\ objs[1].frequency = "weekly"
    /\ WellFormed("weekly", objs[1].time_spec)
    /\ objs[1].run_count >= 1
    /\ Weekday(clock) = objs[1].time_spec[1]
    /\ fromisoformat(objs[1].last_run) = clock
    /\ fromisoformat(objs[1].next_run) > clock + (6 * SecondsPerDay)
    /\ fromisoformat(objs[1].next_run) < clock + (DaysPerWeek * SecondsPerDay)

\* C23: the next_run of a custom task of N minutes is the now of its
\* construction + N minutes, and after a state update the now of that update +
\* N minutes.
C23_CustomFromNow ==
    [][Computed("custom")
       => objs'[1].next_run
            = isoformat(clock + (objs'[1].time_spec[1] * SecondsPerMinute))]_vars

\* C23 witness: a custom task has been updated at an instant that is neither
\* its previous next_run nor a multiple of its interval after its creation
C23_Witness ==
    /\ Len(objs) = 1
    /\ objs[1].frequency = "custom"
    /\ objs[1].run_count >= 1
    /\ fromisoformat(objs[1].last_run) = objs[1].task_id[2] + PollSeconds
    /\ fromisoformat(objs[1].next_run)
         = fromisoformat(objs[1].last_run) + (objs[1].time_spec[1] * SecondsPerMinute)

\* C24: toggle is an involution on enabled: for every stored task, one toggle
\* negates enabled, a second one restores the task objects as they were, no
\* other field of any task changes, and a toggle step of the scheduler is one
\* such toggle.
C24_ToggleInvolution ==
    [][\A i \in 1..Len(tasks) :
         LET ref == tasks[i]
             once == Toggled(objs, ref)
             twice == Toggled(once, ref)
         IN  /\ once[ref].enabled = ~objs[ref].enabled
             /\ [once[ref] EXCEPT !.enabled = objs[ref].enabled] = objs[ref]
             /\ \A r \in 1..Len(objs) : r # ref => once[r] = objs[r]
             /\ twice = objs
             /\ CmdToggle(objs[ref].user_id, objs[ref].task_id) => objs' = once]_vars

\* C24 witness: a task that never ran is disabled: it has been toggled
C24_Witness ==
    \E i \in 1..Len(tasks) :
        /\ ~objs[tasks[i]].enabled
        /\ objs[tasks[i]].run_count = 0
        /\ file.state = "ok"
        /\ \E j \in 1..Len(file.data) :
              /\ file.data[j].task_id = objs[tasks[i]].task_id
              /\ ~file.data[j].enabled

\* C25: a delete, toggle or run-immediately command of a caller who does not
\* own the referenced task changes neither the store nor the file, starts no
\* execution, and only replies with the rejection.
C25_NonOwnerRejected ==
    [][\A u \in Callers, id \in KnownIds :
         /\ objs[get_task(id)].user_id # u
         /\ CmdDelete(u, id) \/ CmdToggle(u, id) \/ CmdRunTask(u, id)
         => /\ UNCHANGED <<objs, tasks, file, running, loops>>
            /\ cmd' = Rejected(u, get_task(id))
            /\ cmd'.pc \notin ExecPcs \cup {"reply"}]_vars

\* C25 witness: the command of a caller who does not own the task is being
\* rejected, the task is stored and enabled as before
C25_Witness ==
    /\ cmd.pc = "rejected"
    /\ cmd.user # objs[cmd.obj].user_id
    /\ \E i \in 1..Len(tasks) : tasks[i] = cmd.obj
    /\ objs[cmd.obj].enabled
    /\ objs[cmd.obj].run_count = 0

\* the file cannot be loaded: unreadable, not JSON, or with a record that
\* cannot be constructed
Unloadable(f) ==
    f.state = "corrupt" \/ \E i \in 1..Len(f.data) : ~Constructible(f.data[i])

\* C26: the startup load never fails: the scheduler can always be constructed,
\* and with a missing file, a corrupt or unreadable file, or a file in which
\* some record is invalid, the store starts empty.
C26_LoadNeverFails ==
    [][/\ events < MaxEvents => ENABLED Restart
       /\ events' = events + 1 /\ (file.state = "missing" \/ Unloadable(file))
          => /\ objs' = <<>>
             /\ tasks' = <<>>
             /\ ~running'
             /\ loops' = <<>>]_vars

\* C26 witness: the process has started with a file holding a valid record
\* followed or preceded by an invalid one, and the store is empty
C26_Witness ==
    /\ events >= 1
    /\ file.state = "ok"
    /\ \E i \in 1..Len(file.data) : Constructible(file.data[i])
    /\ \E i \in 1..Len(file.data) : ~Constructible(file.data[i])
    /\ objs = <<>>
    /\ tasks = <<>>

\* handle_schedule_flow parses the schedule text in this step
ParseStep == cmd.pc = "schedule" /\ cmd'.pc = "idle"
\* the task this step adds to the store, and whether it adds one
Added == objs'[Len(objs')]
Adds == Len(objs') = Len(objs) + 1
\* no pattern of the parser is found in the text
NothingRecognized(text) ==
    /\ daily_match(text) = 0 /\ ~EveryDay(text)
    /\ DayIn(text) = 0
    /\ hourly_match(text) = 0
    /\ interval_match(text) = 0
    /\ in_match(text) = 0
    /\ ~Tomorrow(text)

\* C27: parse never fails: for every text it returns a pair, so that the task
\* is created, and the pair is (daily, 09:00) when no pattern is recognized.
C27_ParseNeverFails ==
    [][ParseStep
       => /\ Adds
          /\ NothingRecognized(cmd.text)
             => Added.frequency = "daily" /\ Added.time_spec = <<9, 0>>]_vars

\* C28: the pair parse returns conforms to the grammar of its frequency (daily
\* HH:MM with hour 0-23 and minute 0-59, weekly a weekday and such an HH:MM,
\* hourly a minute 0-59, custom integer minutes, once an ISO datetime).
C28_ParseConformsToGrammar ==
    [][ParseStep /\ Adds
       => \/ WellFormed(Added.frequency, Added.time_spec)
          \/ Added.frequency = "custom" /\ Len(Added.time_spec) = 1]_vars

\* the frequency of the earliest matching rule in the order weekday, daily,
\* hourly, every-N, in-N, tomorrow
PriorityFrequency(text) ==
    IF DayIn(text) # 0 THEN "weekly"
    ELSE IF daily_match(text) # 0 \/ EveryDay(text) THEN "daily"
    ELSE IF hourly_match(text) # 0 THEN "hourly"
    ELSE IF interval_match(text) # 0 THEN "custom"
    ELSE IF in_match(text) # 0 \/ Tomorrow(text) THEN "once"
    ELSE "daily"

\* C29: parse applies its rules in the priority order weekday, daily, hourly,
\* every-N, in-N, tomorrow: a text with a weekday name yields weekly even when
\* it also has the daily / every day wording.
C29_WeekdayFirst ==
    [][ParseStep /\ Adds => Added.frequency = PriorityFrequency(cmd.text)]_vars

\* the text is `every day at HH[:MM]` with an optional am or pm
EveryDayAt(text) ==
    /\ Len(text) \in {4, 5}
    /\ IsWord(text, 1, "every") /\ IsWord(text, 2, "day") /\ IsWord(text, 3, "at")
    /\ IsNum(text, 4)
    /\ Len(text) = 5 => AmPm(text, 4) # "none"

\* C30: for a text `every day at HH[:MM][am|pm]` parse returns daily with that
\* time, normalized to 24 hours.
C30_EveryDayAcceptsTime ==
    [][ParseStep /\ EveryDayAt(cmd.text)
       => /\ Adds
          /\ Added.frequency = "daily"
          /\ Added.time_spec = HourMinute(cmd.text, 4)]_vars

\* the 24-hour hour of a 12-hour one: 12am is 0, 1-11pm are 13-23, 12pm and
\* 1-11am stay
Hour24(hour, ampm) ==
    IF ampm = "am" THEN (IF hour = 12 THEN 0 ELSE hour)
    ELSE IF ampm = "pm" THEN (IF hour = 12 THEN 12 ELSE hour + 12)
    ELSE hour
\* word j of the text is a time of day H[:MM], followed by am or pm or by nothing
IsTimeOfDay(text, j) ==
    /\ IsNum(text, j)
    /\ text[j].mm \in {-1} \cup (0..59)
    /\ IF AmPm(text, j) = "none"
       THEN Len(text) = j /\ text[j].n \in 0..23
       ELSE Len(text) = j + 1 /\ text[j].n \in 1..12
\* the text is `daily [at] H[:MM] [am|pm]`
DailyPhrase(text) ==
    IsWord(text, 1, "daily") /\ NumAfter(text, 2) # 0 /\ IsTimeOfDay(text, NumAfter(text, 2))
\* the text is `[every] <weekday> [at] H[:MM] [am|pm]`, the weekday being word k
WeeklyPhrase(text, k) ==
    /\ k \in {1, 2}
    /\ k = 2 => IsWord(text, 1, "every")
    /\ \E d \in 1..Len(days) : IsWord(text, k, days[d])
    /\ NumAfter(text, k + 1) # 0 /\ IsTimeOfDay(text, NumAfter(text, k + 1))
\* hour and minute of the time of day at word j, on the 24-hour clock
TimeOfDay(text, j) ==
    << Hour24(text[j].n, AmPm(text, j)), IF text[j].mm < 0 THEN 0 ELSE text[j].mm >>

CmdToolStep == cmd.pc = "resp" /\ cmd' # cmd /\ ToolLoopContinues(cmd.resp, cmd.iter)

\* C32: the tool bridge never raises: the execution goes on to its next LLM
\* call; for a tool name outside the allow-list the result is the structured
\* "not available" failure and no agent call is made; for an allow-listed name
\* exactly one agent call is made, and its result or its failure is the result.
C32_BridgeNeverRaises ==
    [][CmdToolStep
       => /\ cmd'.pc = "exec"
          /\ cmd'.tool.name \in ToolNames
          /\ cmd'.tool.name \notin AllowedTools
             => cmd'.calls = cmd.calls /\ cmd'.tool.result = "unavailable"
          /\ cmd'.tool.name \in AllowedTools
             => cmd'.calls = cmd.calls + 1 /\ cmd'.tool.result \in {"ok", "failed", "error"}]_vars

\* C32 witness: after a round with an agent call, a round for a tool outside
\* the allow-list has returned the failure result without another call
C32_Witness ==
    /\ cmd.pc = "exec"
    /\ cmd.iter = 2
    /\ cmd.calls = 1
    /\ cmd.tool = [name |-> "order_uber_eats", result |-> "unavailable"]

\* C33: an execution of a task whose use_tools is false never invokes the
\* tool bridge and never calls the agent, whatever the LLM returns.
C33_NoToolsNoAgentCalls ==
    [][~objs[cmd.obj].use_tools /\ cmd.obj # 0
       => /\ cmd'.calls = cmd.calls
          /\ cmd'.tool \in {cmd.tool, NoTool}]_vars

\* C34: while an execution of the loop waits for the response of the LLM (or
\* of the agent inside a tool round), a chat command about a stored task,
\* here a toggle by its owner, can be handled before the response arrives.
C34_CommandsDuringCall ==
    \A l \in 1..Len(loops) :
        (loops[l].pc = "exec" /\ cmd.pc = "idle" /\ events < MaxEvents)
        => \A id \in KnownIds :
              ENABLED CmdToggle(objs[get_task(id)].user_id, id)

\* C35: the create flow is a two-step session per user.  After /schedule the
\* next text of the user becomes the prompt and creates no task; the text after
\* that is parsed as the schedule and creates exactly one task, with that prompt
\* and for the chat of the /schedule, and ends the flow; a text of a user
\* without a flow changes nothing; no message touches the flow of another user.
C35_TwoStepFlow ==
    [][/\ \A u \in Callers, chat \in Chats :
            CmdScheduleInteractive(u, chat)
            => /\ pending'[u] = [step |-> "prompt", chat_id |-> chat, prompt |-> <<>>]
               /\ UNCHANGED <<objs, tasks, file>>
               /\ \A v \in Callers \ {u} : pending'[v] = pending[v]
       /\ \A u \in Callers, text \in FlowTexts :
            TextMessage(u, text)
            => /\ pending[u].step = "none" => UNCHANGED <<objs, tasks, file, pending>>
               /\ pending[u].step = "prompt"
                  => /\ pending'[u] = [step |-> "schedule",
                                       chat_id |-> pending[u].chat_id, prompt |-> text]
                     /\ UNCHANGED <<objs, tasks, file>>
               /\ pending[u].step = "schedule"
                  => /\ Adds
                     /\ Len(tasks') = Len(tasks) + 1
                     /\ Added.user_id = u
                     /\ Added.prompt = pending[u].prompt
                     /\ Added.chat_id = pending[u].chat_id
                     /\ pending'[u] = NoFlow
               /\ \A v \in Callers \ {u} : pending'[v] = pending[v]]_vars

\* C36: an interrupt request that is sent while an operation runs on the agent,
\* before the last interrupt check of that operation, is processed during the
\* operation: the operation returns the cancelled result, and the request is
\* not still waiting when the operation has returned.
C36_InterruptStopsOperation ==
    \A i \in 1..Len(agent.backlog) :
        LET req == agent.backlog[i]
        IN  (req.action = "interrupt" /\ req.during # 0 /\ req.at < MaxChecks)
            => \/ agent.op = req.during
               \/ /\ req.during <= Len(agent.replies)
                  /\ agent.replies[req.during] = "cancelled"

\* a loop coroutine that has not returned and has no cancellation pending
LiveLoops == { l \in 1..Len(loops) : loops[l].pc # "done" /\ ~loops[l].cancel }

\* C37: at most one loop coroutine is live at any time, under any sequence of
\* start() and stop(): never two loops that have neither returned nor are about
\* to be ended by a cancellation.
C37_AtMostOneLiveLoop == Cardinality(LiveLoops) <= 1

\* loop l takes a step of its execution other than the state-update step, with
\* which an execution that did not fail ends
LoopExecNoUpdate(l) ==
    /\ loops[l].pc \in ExecPcs
    /\ LoopStep(l)
    /\ ~(loops[l].pc \in {"resp", "deliver"} /\ ~loops[l].cancel
         /\ loops'[l].pc \notin ExecPcs)
\* the same for the execution of the handler of /runtask
CmdExecNoUpdate ==
    /\ cmd.pc \in ExecPcs
    /\ cmd' # cmd
    /\ events' = events
    /\ ~(cmd.pc \in {"resp", "deliver"} /\ cmd'.pc \notin ExecPcs)

\* C38: an execution that fails before its state-update step leaves the task
\* record as it was and does not rewrite the file: no step of an execution
\* other than the state-update step, in particular no step into or out of the
\* error notification, changes a task object, the map or the file.
C38_FailureLeavesRecord ==
    [][/\ \A l \in 1..Len(loops) :
            LoopExecNoUpdate(l) => UNCHANGED <<objs, tasks, file>>
       /\ CmdExecNoUpdate => UNCHANGED <<objs, tasks, file>>]_vars

\* C38 witness: the execution of a task by the loop has failed and is in its
\* error notification; the task has never run, and its record and the file are
\* those of its creation
C38_Witness ==
    \E l \in 1..Len(loops) :
        /\ loops[l].pc = "notify"
        /\ ScannedRef(l) \in { tasks[i] : i \in 1..Len(tasks) }
        /\ objs[ScannedRef(l)].enabled
        /\ objs[ScannedRef(l)].run_count = 0
        /\ objs[ScannedRef(l)].last_run = <<>>
        /\ file = Serialize(objs, tasks)

\* the task objects of the dict
StoredRefs == { tasks[i] : i \in 1..Len(tasks) }
\* the execution of loop l reaches its state-update step in this step
LoopCompletes(l) ==
    /\ loops[l].pc \in {"resp", "deliver"}
    /\ ~loops[l].cancel
    /\ LoopStep(l)
    /\ loops'[l].pc \notin ExecPcs

\* C39: a removal is never undone by an in-flight execution.  When the
\* execution of a task that was removed from the dict meanwhile completes and
\* persists, it updates the task object it holds, the dict stays as it is,
\* without the removed task, and the file written holds the tasks of the dict
\* only.
C39_RemovalNotUndone ==
    [][\A l \in 1..Len(loops) :
         (LoopCompletes(l) /\ ScannedRef(l) \notin StoredRefs)
         => /\ objs'[ScannedRef(l)].run_count = objs[ScannedRef(l)].run_count + 1
            /\ tasks' = tasks
            /\ file' = Serialize(objs', tasks)
            /\ Len(file'.data) = Len(tasks)]_vars

\* C39 witness: the loop is at the second task of its snapshot; the first task
\* of the snapshot was removed during its execution, the execution has
\* completed (the task has run once), and the dict and the file hold the other
\* task only
C39_Witness ==
    \E l \in 1..Len(loops) :
        /\ loops[l].pc = "scan"
        /\ loops[l].idx = 2
        /\ loops[l].snap[1] \notin StoredRefs
        /\ objs[loops[l].snap[1]].run_count = 1
        /\ StoredRefs = {loops[l].snap[2]}
        /\ file = Serialize(objs, tasks)
        /\ Len(file.data) = 1

====
